---- MODULE Spec2Model ----
(***************************************************************************)
(* KZG verification accumulators of halo2_proofs:                          *)
(*   poly/kzg/msm.rs       MSMKZG, PreMSM, DualMSM                         *)
(*   poly/kzg/strategy.rs  GuardKZG, AccumulatorStrategy, SingleStrategy   *)
(*                                                                         *)
(* The pairing engine E is modelled by a small concrete pairing:           *)
(*   E::Scalar = the prime field Z_FieldOrder,                             *)
(*   E::G1, E::G2 = cyclic groups of order FieldOrder, an element being    *)
(*   written as its discrete logarithm k (the point k*G),                  *)
(*   E::Gt = the subgroup of order FieldOrder of (Z_GtModulus)^*,          *)
(*   generated by GtGenerator, with e(a*G1, b*G2) = GtGenerator^(a*b).     *)
(***************************************************************************)
EXTENDS Integers, Sequences, FiniteSets, TLC

\* ------------------------------------------------------------------ engine
\* Order of the scalar field E::Scalar (a PrimeField) and of G1, G2, Gt.
FieldOrder == 5
\* Gt lives in the multiplicative group modulo GtModulus.
GtModulus == 11
\* A generator of the subgroup of order FieldOrder of (Z_GtModulus)^*.
GtGenerator == 4

Scalars == 0 .. (FieldOrder - 1)
G1 == 0 .. (FieldOrder - 1)

\* E::Scalar::ONE
ONE == 1 % FieldOrder

\* Field multiplication (*=) of E::Scalar.
Mul(a, b) == (a * b) % FieldOrder

\* Group addition in G1 (and G2), on discrete logarithms.
G1Add(a, b) == (a + b) % FieldOrder

\* Scalar multiplication scalar * base in G1.
G1Mul(scalar, base) == (scalar * base) % FieldOrder

\* -self.params.g2 : negation in G2.
G2Neg(a) == (FieldOrder - (a % FieldOrder)) % FieldOrder

GtMul(x, y) == (x * y) % GtModulus

RECURSIVE GtPow(_, _)
GtPow(x, n) == IF n = 0 THEN 1 % GtModulus ELSE GtMul(x, GtPow(x, n - 1))

\* One pairing term e(p, q) of the Miller loop, p in G1 and q in G2.
Pairing(p, q) == GtPow(GtGenerator, (p * q) % FieldOrder)

\* E::multi_miller_loop(&terms[..]).final_exponentiation(): the product of the
\* pairings of the terms, a sequence of <<G1 point, G2 point>>.
RECURSIVE MultiMillerLoop(_)
MultiMillerLoop(terms) ==
    IF terms = <<>> THEN 1 % GtModulus
    ELSE GtMul(Pairing(Head(terms)[1], Head(terms)[2]), MultiMillerLoop(Tail(terms)))

\* is_identity() in Gt.
GtIsIdentity(x) == x = 1 % GtModulus

\* ------------------------------------------------------------------ MSMKZG
\* MSMKZG::new : an empty MSM instance.
MSMKZG_new == [scalars |-> <<>>, bases |-> <<>>]

\* The loop of combine_with_base: scalars.iter_mut().rev(), i runs from the
\* last index down to the first; acc starts at ONE and is multiplied by base
\* after each element.
RECURSIVE CombineLoop(_, _, _, _)
CombineLoop(scalars, i, acc, base) ==
    IF i = 0 THEN scalars
    ELSE CombineLoop([scalars EXCEPT ![i] = Mul(@, acc)], i - 1, Mul(acc, base), base)

\* The loop of combine_with_base without .rev(): i runs from the first index up.
RECURSIVE CombineLoopForward(_, _, _, _)
CombineLoopForward(scalars, i, acc, base) ==
    IF i > Len(scalars) THEN scalars
    ELSE CombineLoopForward([scalars EXCEPT ![i] = Mul(@, acc)], i + 1, Mul(acc, base), base)

\* combine_with_base iterating in append order: the first term gets base^0.
combine_with_base_forward(self, base) ==
    IF self.scalars # <<>>
    THEN [self EXCEPT !.scalars = CombineLoopForward(self.scalars, 1, ONE, base)]
    ELSE self

\* MSMKZG::combine_with_base
combine_with_base(self, base) ==
    IF self.scalars # <<>>
    THEN [self EXCEPT !.scalars = CombineLoop(self.scalars, Len(self.scalars), ONE, base)]
    ELSE self

\* MSMKZG::append_term
append_term(self, scalar, point) ==
    [scalars |-> Append(self.scalars, scalar), bases |-> Append(self.bases, point)]

\* add_msm that extends the scalars and forgets the bases.
add_msm_scalars_only(self, other) ==
    [scalars |-> self.scalars \o other.scalars, bases |-> self.bases]

\* add_msm putting the terms of other in front of the terms of self.
add_msm_prepends(self, other) ==
    [scalars |-> other.scalars \o self.scalars, bases |-> other.bases \o self.bases]

\* add_msm that misses the first term of other.
add_msm_skips_first(self, other) ==
    IF other.scalars = <<>> THEN self
    ELSE [scalars |-> self.scalars \o Tail(other.scalars),
          bases |-> self.bases \o Tail(other.bases)]

\* MSMKZG::add_msm
add_msm(self, other) ==
    [scalars |-> self.scalars \o other.scalars, bases |-> self.bases \o other.bases]

\* scale whose last chunk is never handed to the closure.
scale_skips_last(self, factor) ==
    IF self.scalars # <<>>
    THEN [self EXCEPT !.scalars =
              [i \in DOMAIN self.scalars |->
                  IF i = Len(self.scalars) THEN self.scalars[i]
                  ELSE Mul(self.scalars[i], factor)]]
    ELSE self

\* MSMKZG::scale : parallelize() hands disjoint chunks of self.scalars to the
\* closure, which multiplies each element by factor.
scale(self, factor) ==
    IF self.scalars # <<>>
    THEN [self EXCEPT !.scalars = [i \in DOMAIN self.scalars |-> Mul(self.scalars[i], factor)]]
    ELSE self

\* engine.msm(&self.scalars, &bases): the sum of scalars[i] * bases[i].
RECURSIVE EngineMsm(_, _)
EngineMsm(scalars, bases) ==
    IF scalars = <<>> THEN 0
    ELSE G1Add(G1Mul(Head(scalars), Head(bases)), EngineMsm(Tail(scalars), Tail(bases)))

\* MSMKZG::eval : the bases are batch-normalized into a vector of
\* self.scalars.len() affine points (the same group elements), then summed.
eval(self) ==
    LET bases == [i \in 1 .. Len(self.scalars) |-> self.bases[i]]
    IN  EngineMsm(self.scalars, bases)

\* ------------------------------------------------------------------ PreMSM
\* PreMSM::new
PreMSM_new == <<>>

\* into_iter().flatten().collect() over a sequence of sequences.
RECURSIVE Flatten(_)
Flatten(seqs) == IF seqs = <<>> THEN <<>> ELSE Head(seqs) \o Flatten(Tail(seqs))

\* normalize taking the stored accumulators last added first.
normalize_reversed(projectives) ==
    LET k == Len(projectives)
        scalars == [i \in DOMAIN projectives |-> projectives[k + 1 - i].scalars]
        bases == [i \in DOMAIN projectives |-> projectives[k + 1 - i].bases]
    IN  [scalars |-> Flatten(scalars), bases |-> Flatten(bases)]

\* PreMSM::normalize
normalize(projectives) ==
    LET scalars == [i \in DOMAIN projectives |-> projectives[i].scalars]
        bases == [i \in DOMAIN projectives |-> projectives[i].bases]
    IN  [scalars |-> Flatten(scalars), bases |-> Flatten(bases)]

\* PreMSM::add_msm
PreMSM_add_msm(projectives, other) == Append(projectives, other)

\* ------------------------------------------------------------------ DualMSM
\* ParamsKZG as far as DualMSM reads it: g2 = [1]_2 and s_g2 = [s]_2.
ParamsKZG(s) == [g2 |-> 1 % FieldOrder, s_g2 |-> s]

\* DualMSM::new whose right side starts with one term of scalar ONE.
DualMSM_new_preloaded(prm) ==
    [params |-> prm,
     left |-> [scalars |-> <<>>, bases |-> <<>>],
     right |-> [scalars |-> <<ONE>>, bases |-> <<ONE>>]]

\* DualMSM::new
DualMSM_new(prm) == [params |-> prm, left |-> MSMKZG_new, right |-> MSMKZG_new]

\* DualMSM::scale that scales the left side only.
DualMSM_scale_left_only(self, e) ==
    [self EXCEPT !.left = scale(@, e)]

\* DualMSM::scale
DualMSM_scale(self, e) ==
    [self EXCEPT !.left = scale(@, e), !.right = scale(@, e)]

\* DualMSM::add_msm merging the sides of other crosswise.
DualMSM_add_msm_crossed(self, other) ==
    [self EXCEPT !.left = add_msm(@, other.right), !.right = add_msm(@, other.left)]

\* DualMSM::add_msm
DualMSM_add_msm(self, other) ==
    [self EXCEPT !.left = add_msm(@, other.left), !.right = add_msm(@, other.right)]

\* DualMSM::check refusing an accumulator without terms.
DualMSM_check_rejects_empty(self) ==
    LET s_g2_prepared == self.params.s_g2
        n_g2_prepared == G2Neg(self.params.g2)
        left == eval(self.left)
        right == eval(self.right)
        terms == << <<left, s_g2_prepared>>, <<right, n_g2_prepared>> >>
    IN  /\ self.left.scalars # <<>> \/ self.right.scalars # <<>>
        /\ GtIsIdentity(MultiMillerLoop(terms))

\* DualMSM::check with the two G2 points swapped between the sides.
DualMSM_check_swapped(self) ==
    LET s_g2_prepared == self.params.s_g2
        n_g2_prepared == G2Neg(self.params.g2)
        left == eval(self.left)
        right == eval(self.right)
        terms == << <<left, n_g2_prepared>>, <<right, s_g2_prepared>> >>
    IN  GtIsIdentity(MultiMillerLoop(terms))

\* DualMSM::check pairing the right side with [1]_2 instead of -[1]_2.
DualMSM_check_unnegated(self) ==
    LET s_g2_prepared == self.params.s_g2
        g2_prepared == self.params.g2
        left == eval(self.left)
        right == eval(self.right)
        terms == << <<left, s_g2_prepared>>, <<right, g2_prepared>> >>
    IN  GtIsIdentity(MultiMillerLoop(terms))

\* DualMSM::check
DualMSM_check(self) ==
    LET s_g2_prepared == self.params.s_g2
        n_g2_prepared == G2Neg(self.params.g2)
        left == eval(self.left)
        right == eval(self.right)
        terms == << <<left, s_g2_prepared>>, <<right, n_g2_prepared>> >>
    IN  GtIsIdentity(MultiMillerLoop(terms))

\* ------------------------------------------------------------------ bounds
\* Process calls made on one batch strategy.
MaxProofs == 2
\* Terms one side of a strategy's accumulator holds.
MaxTerms == 2

\* The secret s of the parameters, [s]_2 = s * [1]_2.
Trapdoors == {2, 3}
\* The terms <<scalar, point>> verify_fn folds in.
FoldTerms == {<<1, 1>>, <<1, 2>>}
FoldBases == {1, 2}
\* plonk::Error values verify_fn may fail with.
Errors == {"Opening", "ConstraintSystemFailure"}

\* Terms of the accumulator the MSMKZG operations are applied to.
MaxMsmTerms == 3
\* Terms of the accumulator merged into it.
MaxOtherTerms == 2
\* Operations applied in a row to one accumulator.
MaxOps == 1
\* Accumulators added to one PreMSM.
MaxMsms == 2
\* Terms of one side of the DualMSM the DualMSM operations are applied to.
MaxDualTerms == 2
\* The terms <<scalar, point>> the input accumulators are built from.
InputTerms == {<<1, 1>>, <<2, 1>>, <<3, 2>>}

VARIABLES
    kind,             \* "batch": AccumulatorStrategy, "single": SingleStrategy
    ctor,             \* constructor used: "new" or "with"
    params,           \* the ParamsKZG the strategy was built from
    msm_accumulator,  \* the strategy's DualMSM; owned by verify_fn while it runs
    pc,               \* "ready", "in_f", "f_returned", "aborted", "finalized",
                      \* "done", "panicked"
    entry,            \* the accumulator when the current process call began
    rand,             \* the scalar the current process call drew, -1: none
    handed,           \* the accumulator as passed to verify_fn in this call
    fret,             \* what verify_fn returned
    result,           \* what the last process / finalize returned
    checks,           \* number of DualMSM::check calls made so far
    in_call_checks,   \* DualMSM::check calls made by the last process call
    fcalls,           \* number of verify_fn invocations so far
    nproc,            \* number of successful process calls
    all_valid,        \* every fold so far appended a valid proof's terms
    msm,              \* an MSMKZG (self of the MSMKZG operations)
    other,            \* a second MSMKZG (the argument of add_msm)
    msm_prev,         \* msm before the last operation on it
    msm_op,           \* the last operation on msm and its arguments
    nops,             \* operations applied so far
    projectives_msms, \* PreMSM::projectives_msms
    pre_state,        \* "collecting", or "normalized" once normalize consumed it
    pre_prev,         \* projectives_msms as normalize found it
    normalized,       \* the MSMKZG normalize returned
    dual,             \* a DualMSM (self of the DualMSM operations)
    dual_other,       \* a second DualMSM (the argument of DualMSM::add_msm)
    dual_prev,        \* dual before the last operation on it
    dual_op,          \* the last operation on dual and its arguments
    dual_res,         \* what DualMSM::check returned
    sess_a,           \* the DualMSM of a batch session
    sess_b,           \* the DualMSM of a second batch session given the same proofs
    sess_rs,          \* the scalars the process calls of the first session drew, when recorded
    sess_ds,          \* the terms verify_fn appended, one entry per process call
    sess_pc,          \* "ready", "aborted", "finalized"
    sess_res_a,       \* what the first session returned last
    sess_res_b        \* what the second session returned last

strategy_vars == <<kind, ctor, params, msm_accumulator, pc, entry, rand, handed,
                   fret, result, checks, in_call_checks, fcalls, nproc, all_valid>>

msm_vars == <<msm, other, msm_prev, msm_op, nops>>

pre_vars == <<projectives_msms, pre_state, pre_prev, normalized>>

dual_vars == <<dual, dual_other, dual_prev, dual_op, dual_res>>

session_vars == <<sess_a, sess_b, sess_rs, sess_ds, sess_pc, sess_res_a, sess_res_b>>

vars == <<strategy_vars, msm_vars, pre_vars, dual_vars, session_vars>>

NoResult == [tag |-> "None", err |-> "", val |-> FALSE]
OkResult == [tag |-> "Ok", err |-> "", val |-> FALSE]
ErrResult(e) == [tag |-> "Err", err |-> e, val |-> FALSE]
BoolResult(b) == [tag |-> "Bool", err |-> "", val |-> b]
PanicResult == [tag |-> "Panic", err |-> "", val |-> FALSE]

\* Accumulators a caller may hand to AccumulatorStrategy::with.
WithAccumulators(prm) ==
    { [params |-> prm,
       left |-> append_term(MSMKZG_new, ONE, bl),
       right |-> append_term(MSMKZG_new, ONE, br)] : bl \in FoldBases, br \in FoldBases }

\* AccumulatorStrategy::new
AccumulatorStrategy_new(prm) == DualMSM_new(prm)

\* AccumulatorStrategy::with
AccumulatorStrategy_with(acc) == acc

\* SingleStrategy::new
SingleStrategy_new(prm) == DualMSM_new(prm)

\* The value sum of scalar_i * base_i of an accumulator's first k terms, as an
\* integer (the discrete logarithm of the point, before reduction).
RECURSIVE TermSum(_, _)
TermSum(m, k) == IF k = 0 THEN 0 ELSE TermSum(m, k - 1) + m.scalars[k] * m.bases[k]

\* The point an accumulator stands for.
Value(m) == TermSum(m, Len(m.scalars)) % FieldOrder

\* s * value(left) - value(right) = 0 : the pairing equation in the exponent.
PairingEquationHolds(d) ==
    (d.params.s_g2 * Value(d.left) - Value(d.right)) % FieldOrder = 0

\* The terms a side holds beyond the first n.
TermsAfter(m, n) ==
    [scalars |-> SubSeq(m.scalars, n + 1, Len(m.scalars)),
     bases |-> SubSeq(m.bases, n + 1, Len(m.bases))]

\* What verify_fn appended to the accumulator it was handed.
Folded(acc, from) ==
    [params |-> acc.params,
     left |-> TermsAfter(acc.left, Len(from.left.scalars)),
     right |-> TermsAfter(acc.right, Len(from.right.scalars))]

StrategyInit ==
    /\ kind \in {"batch", "single"}
    /\ ctor \in {"new", "with"}
    /\ params \in {ParamsKZG(s) : s \in Trapdoors}
    /\ \/ /\ kind = "batch" /\ ctor = "new"
          /\ msm_accumulator = AccumulatorStrategy_new(params)
       \/ /\ kind = "batch" /\ ctor = "with"
          /\ msm_accumulator \in {AccumulatorStrategy_with(a) : a \in WithAccumulators(params)}
       \/ /\ kind = "single" /\ ctor = "new"
          /\ msm_accumulator = SingleStrategy_new(params)
    /\ pc = "ready"
    /\ entry = msm_accumulator
    /\ handed = msm_accumulator
    /\ rand = -1
    /\ fret = NoResult
    /\ result = NoResult
    /\ checks = 0
    /\ in_call_checks = 0
    /\ fcalls = 0
    /\ nproc = 0
    /\ all_valid = TRUE

\* AccumulatorStrategy::process that draws the scalar and does not apply it.
BatchProcessCall_unscaled ==
    /\ kind = "batch" /\ pc = "ready" /\ nproc < MaxProofs
    /\ \E r \in Scalars : rand' = r
    /\ entry' = msm_accumulator
    /\ handed' = msm_accumulator
    /\ fcalls' = fcalls + 1
    /\ in_call_checks' = 0
    /\ pc' = "in_f"
    /\ UNCHANGED <<kind, ctor, params, msm_accumulator, fret, result, checks, nproc,
                   all_valid>>
    /\ UNCHANGED <<msm_vars, pre_vars, dual_vars, session_vars>>

\* AccumulatorStrategy::process up to the call of f: the accumulator is scaled
\* by E::Scalar::random(OsRng) and moved into f.
BatchProcessCall ==
    /\ kind = "batch" /\ pc = "ready" /\ nproc < MaxProofs
    /\ \E r \in Scalars :
         /\ rand' = r
         /\ msm_accumulator' = DualMSM_scale(msm_accumulator, r)
    /\ entry' = msm_accumulator
    /\ handed' = msm_accumulator'
    /\ fcalls' = fcalls + 1
    /\ in_call_checks' = 0
    /\ pc' = "in_f"
    /\ UNCHANGED <<kind, ctor, params, fret, result, checks, nproc, all_valid>>
    /\ UNCHANGED <<msm_vars, pre_vars, dual_vars, session_vars>>

\* SingleStrategy::process up to the call of f: self.msm is moved into f.
SingleProcessCall ==
    /\ kind = "single" /\ pc = "ready"
    /\ entry' = msm_accumulator
    /\ handed' = msm_accumulator
    /\ rand' = -1
    /\ fcalls' = fcalls + 1
    /\ in_call_checks' = 0
    /\ pc' = "in_f"
    /\ UNCHANGED <<kind, ctor, params, msm_accumulator, fret, result, checks, nproc,
                   all_valid>>
    /\ UNCHANGED <<msm_vars, pre_vars, dual_vars, session_vars>>

\* verify_fn folds one term into the left side of the accumulator it owns.
VerifyAppendLeft ==
    /\ pc = "in_f"
    /\ Len(msm_accumulator.left.scalars) < MaxTerms
    /\ \E t \in FoldTerms :
         msm_accumulator' = [msm_accumulator EXCEPT !.left = append_term(@, t[1], t[2])]
    /\ UNCHANGED <<kind, ctor, params, pc, entry, rand, handed, fret, result, checks,
                   in_call_checks, fcalls, nproc, all_valid>>
    /\ UNCHANGED <<msm_vars, pre_vars, dual_vars, session_vars>>

\* verify_fn folds one term into the right side of the accumulator it owns.
VerifyAppendRight ==
    /\ pc = "in_f"
    /\ Len(msm_accumulator.right.scalars) < MaxTerms
    /\ \E t \in FoldTerms :
         msm_accumulator' = [msm_accumulator EXCEPT !.right = append_term(@, t[1], t[2])]
    /\ UNCHANGED <<kind, ctor, params, pc, entry, rand, handed, fret, result, checks,
                   in_call_checks, fcalls, nproc, all_valid>>
    /\ UNCHANGED <<msm_vars, pre_vars, dual_vars, session_vars>>

\* verify_fn returns Ok(GuardKZG::new(msm_accumulator)).
VerifyReturnOk ==
    /\ pc = "in_f"
    /\ fret' = OkResult
    /\ pc' = "f_returned"
    /\ UNCHANGED <<kind, ctor, params, msm_accumulator, entry, rand, handed, result,
                   checks, in_call_checks, fcalls, nproc, all_valid>>
    /\ UNCHANGED <<msm_vars, pre_vars, dual_vars, session_vars>>

\* verify_fn returns Err(e); the accumulator it owned is dropped with it.
VerifyReturnErr ==
    /\ pc = "in_f"
    /\ \E e \in Errors : fret' = ErrResult(e)
    /\ pc' = "f_returned"
    /\ msm_accumulator' = DualMSM_new(params)
    /\ entry' = msm_accumulator'
    /\ handed' = msm_accumulator'
    /\ rand' = -1
    /\ UNCHANGED <<kind, ctor, params, result, checks, in_call_checks, fcalls, nproc,
                   all_valid>>
    /\ UNCHANGED <<msm_vars, pre_vars, dual_vars, session_vars>>

\* AccumulatorStrategy::process reporting every error of f as a
\* ConstraintSystemFailure.
BatchProcessReturn_rewraps_error ==
    /\ kind = "batch" /\ pc = "f_returned"
    /\ IF fret.tag = "Err"
       THEN /\ result' = ErrResult("ConstraintSystemFailure")
            /\ pc' = "aborted"
            /\ UNCHANGED <<nproc, all_valid>>
       ELSE /\ result' = OkResult
            /\ pc' = "ready"
            /\ nproc' = nproc + 1
            /\ all_valid' = (all_valid /\ PairingEquationHolds(Folded(msm_accumulator, handed)))
    /\ UNCHANGED <<kind, ctor, params, msm_accumulator, entry, rand, handed, fret,
                   checks, in_call_checks, fcalls>>
    /\ UNCHANGED <<msm_vars, pre_vars, dual_vars, session_vars>>

\* AccumulatorStrategy::process checking the guard's accumulator right away.
BatchProcessReturn_eager_check ==
    /\ kind = "batch" /\ pc = "f_returned"
    /\ IF fret.tag = "Err"
       THEN /\ result' = ErrResult(fret.err)
            /\ pc' = "aborted"
            /\ UNCHANGED <<nproc, all_valid, checks, in_call_checks>>
       ELSE /\ result' = IF DualMSM_check(msm_accumulator)
                         THEN OkResult
                         ELSE ErrResult("ConstraintSystemFailure")
            /\ checks' = checks + 1
            /\ in_call_checks' = in_call_checks + 1
            /\ pc' = "ready"
            /\ nproc' = nproc + 1
            /\ all_valid' = (all_valid /\ PairingEquationHolds(Folded(msm_accumulator, handed)))
    /\ UNCHANGED <<kind, ctor, params, msm_accumulator, entry, rand, handed, fret, fcalls>>
    /\ UNCHANGED <<msm_vars, pre_vars, dual_vars, session_vars>>

\* AccumulatorStrategy::process after f returned: `?` propagates an error,
\* otherwise the guard's accumulator becomes the new strategy's.
BatchProcessReturn ==
    /\ kind = "batch" /\ pc = "f_returned"
    /\ IF fret.tag = "Err"
       THEN /\ result' = ErrResult(fret.err)
            /\ pc' = "aborted"
            /\ UNCHANGED <<nproc, all_valid>>
       ELSE /\ result' = OkResult
            /\ pc' = "ready"
            /\ nproc' = nproc + 1
            /\ all_valid' = (all_valid /\ PairingEquationHolds(Folded(msm_accumulator, handed)))
    /\ UNCHANGED <<kind, ctor, params, msm_accumulator, entry, rand, handed, fret,
                   checks, in_call_checks, fcalls>>
    /\ UNCHANGED <<msm_vars, pre_vars, dual_vars, session_vars>>

\* SingleStrategy::process returning Ok(()) without checking the guard.
SingleProcessReturn_unchecked ==
    /\ kind = "single" /\ pc = "f_returned"
    /\ IF fret.tag = "Err"
       THEN /\ result' = ErrResult(fret.err)
            /\ pc' = "aborted"
            /\ UNCHANGED <<checks, in_call_checks, nproc, all_valid>>
       ELSE /\ result' = OkResult
            /\ pc' = "done"
            /\ nproc' = nproc + 1
            /\ all_valid' = (all_valid /\ PairingEquationHolds(Folded(msm_accumulator, handed)))
            /\ UNCHANGED <<checks, in_call_checks>>
    /\ UNCHANGED <<kind, ctor, params, msm_accumulator, entry, rand, handed, fret,
                   fcalls>>
    /\ UNCHANGED <<msm_vars, pre_vars, dual_vars, session_vars>>

\* SingleStrategy::process after f returned: `?` propagates an error, otherwise
\* the guard's accumulator is checked.
SingleProcessReturn ==
    /\ kind = "single" /\ pc = "f_returned"
    /\ IF fret.tag = "Err"
       THEN /\ result' = ErrResult(fret.err)
            /\ pc' = "aborted"
            /\ UNCHANGED <<checks, in_call_checks, nproc, all_valid>>
       ELSE /\ result' = IF DualMSM_check(msm_accumulator)
                         THEN OkResult
                         ELSE ErrResult("ConstraintSystemFailure")
            /\ checks' = checks + 1
            /\ in_call_checks' = in_call_checks + 1
            /\ pc' = "done"
            /\ nproc' = nproc + 1
            /\ all_valid' = (all_valid /\ PairingEquationHolds(Folded(msm_accumulator, handed)))
    /\ UNCHANGED <<kind, ctor, params, msm_accumulator, entry, rand, handed, fret,
                   fcalls>>
    /\ UNCHANGED <<msm_vars, pre_vars, dual_vars, session_vars>>

\* AccumulatorStrategy::finalize
BatchFinalize ==
    /\ kind = "batch" /\ pc = "ready"
    /\ result' = BoolResult(DualMSM_check(msm_accumulator))
    /\ checks' = checks + 1
    /\ pc' = "finalized"
    /\ UNCHANGED <<kind, ctor, params, msm_accumulator, entry, rand, handed, fret,
                   in_call_checks, fcalls, nproc, all_valid>>
    /\ UNCHANGED <<msm_vars, pre_vars, dual_vars, session_vars>>

\* SingleStrategy::finalize checking the accumulator like the batch strategy.
SingleFinalize_checks ==
    /\ kind = "single" /\ pc = "ready"
    /\ result' = BoolResult(DualMSM_check(msm_accumulator))
    /\ checks' = checks + 1
    /\ pc' = "finalized"
    /\ UNCHANGED <<kind, ctor, params, msm_accumulator, entry, rand, handed, fret,
                   in_call_checks, fcalls, nproc, all_valid>>
    /\ UNCHANGED <<msm_vars, pre_vars, dual_vars, session_vars>>

\* SingleStrategy::finalize : unreachable!()
SingleFinalize ==
    /\ kind = "single" /\ pc = "ready"
    /\ result' = PanicResult
    /\ pc' = "panicked"
    /\ UNCHANGED <<kind, ctor, params, msm_accumulator, entry, rand, handed, fret,
                   checks, in_call_checks, fcalls, nproc, all_valid>>
    /\ UNCHANGED <<msm_vars, pre_vars, dual_vars, session_vars>>

\* ------------------------------------------------------ MSMKZG operations
\* The MSMKZG holding the terms ts, built by append_term from MSMKZG::new.
RECURSIVE FromTerms(_)
FromTerms(ts) ==
    IF ts = <<>> THEN MSMKZG_new
    ELSE LET t == ts[Len(ts)]
         IN  append_term(FromTerms(SubSeq(ts, 1, Len(ts) - 1)), t[1], t[2])

\* The accumulators of at most n input terms.
InputMSMs(n) == {FromTerms(ts) : ts \in UNION {[1 .. k -> InputTerms] : k \in 0 .. n}}

NoOp == [op |-> "none", scalar |-> 0, point |-> 0]
Op(name, scalar, point) == [op |-> name, scalar |-> scalar, point |-> point]

MsmInit ==
    /\ msm \in InputMSMs(MaxMsmTerms)
    /\ other \in InputMSMs(MaxOtherTerms)
    /\ msm_prev = msm
    /\ msm_op = NoOp
    /\ nops = 0

MsmIdle ==
    /\ msm = MSMKZG_new
    /\ other = MSMKZG_new
    /\ msm_prev = msm
    /\ msm_op = NoOp
    /\ nops = 0

MsmAppendTerm ==
    /\ nops < MaxOps
    /\ \E t \in InputTerms :
         /\ msm' = append_term(msm, t[1], t[2])
         /\ msm_op' = Op("append_term", t[1], t[2])
    /\ msm_prev' = msm
    /\ nops' = nops + 1
    /\ UNCHANGED <<other, strategy_vars, session_vars, pre_vars, dual_vars>>

MsmAddMsm ==
    /\ nops < MaxOps
    /\ msm' = add_msm(msm, other)
    /\ msm_op' = Op("add_msm", 0, 0)
    /\ msm_prev' = msm
    /\ nops' = nops + 1
    /\ UNCHANGED <<other, strategy_vars, session_vars, pre_vars, dual_vars>>

MsmScale ==
    /\ nops < MaxOps
    /\ \E factor \in Scalars :
         /\ msm' = scale(msm, factor)
         /\ msm_op' = Op("scale", factor, 0)
    /\ msm_prev' = msm
    /\ nops' = nops + 1
    /\ UNCHANGED <<other, strategy_vars, session_vars, pre_vars, dual_vars>>

MsmCombineWithBase ==
    /\ nops < MaxOps
    /\ \E base \in Scalars :
         /\ msm' = combine_with_base(msm, base)
         /\ msm_op' = Op("combine_with_base", base, 0)
    /\ msm_prev' = msm
    /\ nops' = nops + 1
    /\ UNCHANGED <<other, strategy_vars, session_vars, pre_vars, dual_vars>>

\* ------------------------------------------------------ PreMSM operations
PreInit ==
    /\ projectives_msms = PreMSM_new
    /\ pre_state = "collecting"
    /\ pre_prev = PreMSM_new
    /\ normalized = MSMKZG_new

\* PreMSM::add_msm with one of the two accumulators at hand.
PreAddMsm ==
    /\ pre_state = "collecting"
    /\ Len(projectives_msms) < MaxMsms
    /\ \E m \in {msm, other} : projectives_msms' = PreMSM_add_msm(projectives_msms, m)
    /\ UNCHANGED <<pre_state, pre_prev, normalized, strategy_vars, session_vars, msm_vars, dual_vars>>

\* PreMSM::normalize consumes the collector.
PreNormalize ==
    /\ pre_state = "collecting"
    /\ normalized' = normalize(projectives_msms)
    /\ pre_prev' = projectives_msms
    /\ projectives_msms' = PreMSM_new
    /\ pre_state' = "normalized"
    /\ UNCHANGED <<strategy_vars, session_vars, msm_vars, dual_vars>>

\* ------------------------------------------------------ DualMSM operations
InputDuals(prm, n) ==
    {[params |-> prm, left |-> l, right |-> r] : l \in InputMSMs(n), r \in InputMSMs(n)}

DualInit ==
    /\ dual \in InputDuals(params, MaxDualTerms)
    /\ dual_other \in WithAccumulators(params) \cup {DualMSM_new(params)}
    /\ dual_prev = dual
    /\ dual_op = NoOp
    /\ dual_res = FALSE

DualIdle ==
    /\ dual = DualMSM_new(params)
    /\ dual_other = DualMSM_new(params)
    /\ dual_prev = dual
    /\ dual_op = NoOp
    /\ dual_res = FALSE

DualScale ==
    /\ nops < MaxOps
    /\ \E e \in Scalars :
         /\ dual' = DualMSM_scale(dual, e)
         /\ dual_op' = Op("scale", e, 0)
    /\ dual_prev' = dual
    /\ nops' = nops + 1
    /\ UNCHANGED <<dual_other, dual_res, strategy_vars, session_vars, msm, other, msm_prev, msm_op,
                   pre_vars>>

DualAddMsm ==
    /\ nops < MaxOps
    /\ dual' = DualMSM_add_msm(dual, dual_other)
    /\ dual_op' = Op("add_msm", 0, 0)
    /\ dual_prev' = dual
    /\ nops' = nops + 1
    /\ UNCHANGED <<dual_other, dual_res, strategy_vars, session_vars, msm, other, msm_prev, msm_op,
                   pre_vars>>

\* DualMSM::check consumes self.
DualCheck ==
    /\ dual_op.op # "check"
    /\ dual_res' = DualMSM_check(dual)
    /\ dual_op' = Op("check", 0, 0)
    /\ dual_prev' = dual
    /\ UNCHANGED <<dual, dual_other, nops, strategy_vars, session_vars, msm, other, msm_prev, msm_op,
                   pre_vars>>

\* ------------------------------------------- two batch sessions, same proofs
\* What verify_fn appends to one side in one process call: at most one term.
SideTerms == {<<>>} \cup {<<t>> : t \in FoldTerms}

SessionDeltas == [left : SideTerms, right : SideTerms]

\* verify_fn appending the terms ts, in order, to the MSMKZG it was handed.
RECURSIVE AppendTerms(_, _)
AppendTerms(m, ts) ==
    IF ts = <<>> THEN m
    ELSE AppendTerms(append_term(m, ts[1][1], ts[1][2]), Tail(ts))

VerifyFold(acc, d) ==
    [acc EXCEPT !.left = AppendTerms(@, d.left), !.right = AppendTerms(@, d.right)]

\* AccumulatorStrategy::new, twice, over the same params.
SessionInit ==
    /\ sess_a = AccumulatorStrategy_new(params)
    /\ sess_b = AccumulatorStrategy_new(params)
    /\ sess_rs = <<>>
    /\ sess_ds = <<>>
    /\ sess_pc = "ready"
    /\ sess_res_a = NoResult
    /\ sess_res_b = NoResult

SessionIdle == SessionInit

\* AccumulatorStrategy::process, verify_fn succeeding; the scalar drawn and
\* the terms appended are recorded.
SessionProcess ==
    /\ sess_pc = "ready"
    /\ Len(sess_ds) < MaxProofs
    /\ \E r \in Scalars, d \in SessionDeltas :
         /\ Len(sess_a.left.scalars) + Len(d.left) <= MaxTerms
         /\ Len(sess_a.right.scalars) + Len(d.right) <= MaxTerms
         /\ sess_a' = VerifyFold(DualMSM_scale(sess_a, r), d)
         /\ sess_rs' = Append(sess_rs, r)
         /\ sess_ds' = Append(sess_ds, d)
    /\ sess_res_a' = OkResult
    /\ UNCHANGED <<sess_b, sess_pc, sess_res_b>>
    /\ UNCHANGED <<strategy_vars, msm_vars, pre_vars, dual_vars>>

\* AccumulatorStrategy::process, verify_fn failing: `?` returns the error and
\* the strategy, moved into the call, is gone.
SessionProcessErr ==
    /\ sess_pc = "ready"
    /\ Len(sess_ds) < MaxProofs
    /\ \E e \in Errors : sess_res_a' = ErrResult(e)
    /\ sess_a' = DualMSM_new(params)
    /\ sess_pc' = "aborted"
    /\ UNCHANGED <<sess_b, sess_rs, sess_ds, sess_res_b>>
    /\ UNCHANGED <<strategy_vars, msm_vars, pre_vars, dual_vars>>

\* AccumulatorStrategy::finalize
SessionFinalize ==
    /\ sess_pc = "ready"
    /\ sess_res_a' = BoolResult(DualMSM_check(sess_a))
    /\ sess_pc' = "finalized"
    /\ UNCHANGED <<sess_a, sess_b, sess_rs, sess_ds, sess_res_b>>
    /\ UNCHANGED <<strategy_vars, msm_vars, pre_vars, dual_vars>>

\* AccumulatorStrategy::process in two sessions, verify_fn succeeding: each
\* session draws its own scalar, verify_fn appends the same terms in both.
TwinProcess ==
    /\ sess_pc = "ready"
    /\ Len(sess_ds) < MaxProofs
    /\ \E ra \in Scalars, rb \in Scalars, d \in SessionDeltas :
         /\ Len(sess_a.left.scalars) + Len(d.left) <= MaxTerms
         /\ Len(sess_a.right.scalars) + Len(d.right) <= MaxTerms
         /\ sess_a' = VerifyFold(DualMSM_scale(sess_a, ra), d)
         /\ sess_b' = VerifyFold(DualMSM_scale(sess_b, rb), d)
         /\ sess_ds' = Append(sess_ds, d)
    /\ sess_res_a' = OkResult
    /\ sess_res_b' = OkResult
    /\ UNCHANGED <<sess_rs, sess_pc>>
    /\ UNCHANGED <<strategy_vars, msm_vars, pre_vars, dual_vars>>

\* AccumulatorStrategy::process in two sessions, verify_fn failing in both.
TwinProcessErr ==
    /\ sess_pc = "ready"
    /\ Len(sess_ds) < MaxProofs
    /\ \E e \in Errors :
         /\ sess_res_a' = ErrResult(e)
         /\ sess_res_b' = ErrResult(e)
    /\ sess_a' = DualMSM_new(params)
    /\ sess_b' = DualMSM_new(params)
    /\ sess_pc' = "aborted"
    /\ UNCHANGED <<sess_rs, sess_ds>>
    /\ UNCHANGED <<strategy_vars, msm_vars, pre_vars, dual_vars>>

\* AccumulatorStrategy::finalize in two sessions.
TwinFinalize ==
    /\ sess_pc = "ready"
    /\ sess_res_a' = BoolResult(DualMSM_check(sess_a))
    /\ sess_res_b' = BoolResult(DualMSM_check(sess_b))
    /\ sess_pc' = "finalized"
    /\ UNCHANGED <<sess_a, sess_b, sess_rs, sess_ds>>
    /\ UNCHANGED <<strategy_vars, msm_vars, pre_vars, dual_vars>>

\* ------------------------------------------------------ specifications
\* A strategy that was constructed and not used.
StrategyIdle ==
    /\ StrategyInit
    /\ kind = "batch"
    /\ ctor = "new"

\* The verification strategies.
Init == StrategyInit /\ MsmIdle /\ PreInit /\ DualIdle /\ SessionIdle

Next ==
    \/ BatchProcessCall
    \/ SingleProcessCall
    \/ VerifyAppendLeft
    \/ VerifyAppendRight
    \/ VerifyReturnOk
    \/ VerifyReturnErr
    \/ BatchProcessReturn
    \/ SingleProcessReturn
    \/ BatchFinalize
    \/ SingleFinalize

Spec == Init /\ [][Next]_vars

\* The MSMKZG operations on accumulators drawn from InputMSMs.
InitMSM == StrategyIdle /\ MsmInit /\ PreInit /\ DualIdle /\ SessionIdle

NextMSM ==
    \/ MsmAppendTerm
    \/ MsmAddMsm
    \/ MsmScale
    \/ MsmCombineWithBase

SpecMSM == InitMSM /\ [][NextMSM]_vars

\* The PreMSM operations on accumulators drawn from InputMSMs.
InitPreMSM == StrategyIdle /\ MsmInit /\ PreInit /\ DualIdle /\ SessionIdle

NextPreMSM ==
    \/ PreAddMsm
    \/ PreNormalize

SpecPreMSM == InitPreMSM /\ [][NextPreMSM]_vars

\* The DualMSM operations on accumulators drawn from InputDuals.
InitDual == StrategyIdle /\ MsmIdle /\ PreInit /\ DualInit /\ SessionIdle

NextDual ==
    \/ DualScale
    \/ DualAddMsm
    \/ DualCheck

SpecDual == InitDual /\ [][NextDual]_vars

\* A batch session with the scalars it drew and the terms it was given.
InitSessions == StrategyIdle /\ MsmIdle /\ PreInit /\ DualIdle /\ SessionInit

NextSessions ==
    \/ SessionProcess
    \/ SessionProcessErr
    \/ SessionFinalize

SpecSessions == InitSessions /\ [][NextSessions]_vars

\* Two batch sessions that are given the same proofs.
InitTwin == StrategyIdle /\ MsmIdle /\ PreInit /\ DualIdle /\ SessionInit

NextTwin ==
    \/ TwinProcess
    \/ TwinProcessErr
    \/ TwinFinalize

SpecTwin == InitTwin /\ [][NextTwin]_vars

\* Every operation on accumulators, from accumulators built by new and
\* append_term. A run works either on the MSMKZG, whose values a PreMSM then
\* collects, or on the DualMSM: the two share no state.
OneTermMSMs == {MSMKZG_new} \cup {FromTerms(<<t>>) : t \in InputTerms}

InitAccumulators ==
    /\ StrategyIdle
    /\ SessionIdle
    /\ PreInit
    /\ \/ /\ msm \in InputMSMs(MaxOtherTerms)
          /\ other \in OneTermMSMs
          /\ msm_prev = msm /\ msm_op = NoOp /\ nops = 0
          /\ DualIdle
       \/ /\ MsmIdle
          /\ DualInit

NextAccumulators ==
    \/ /\ DualIdle /\ PreInit
       /\ NextMSM
    \/ /\ DualIdle
       /\ NextPreMSM
    \/ /\ msm = MSMKZG_new /\ other = MSMKZG_new /\ msm_op = NoOp /\ PreInit
       /\ NextDual

SpecAccumulators == InitAccumulators /\ [][NextAccumulators]_vars

\* ------------------------------------------------------ properties
\* m holds the terms of from, in order, each scalar multiplied by r.
ScaledBy(m, from, r) ==
    /\ Len(m.scalars) = Len(from.scalars)
    /\ Len(m.bases) = Len(from.bases)
    /\ m.bases = from.bases
    /\ \A i \in 1 .. Len(from.scalars) : m.scalars[i] = (from.scalars[i] * r) % FieldOrder

\* m holds the terms of from unchanged, followed by terms as verify_fn folds them.
ExtendedByFold(m, from) ==
    /\ Len(from.scalars) <= Len(m.scalars)
    /\ SubSeq(m.scalars, 1, Len(from.scalars)) = from.scalars
    /\ SubSeq(m.bases, 1, Len(from.bases)) = from.bases
    /\ \A i \in (Len(from.scalars) + 1) .. Len(m.scalars) :
         <<m.scalars[i], m.bases[i]>> \in FoldTerms

\* A batch process call has handed an accumulator to verify_fn and the
\* accumulator is still alive.
BatchCallMade ==
    /\ kind = "batch"
    /\ fcalls > 0
    /\ \/ pc \in {"in_f", "ready", "finalized"}
       \/ pc = "f_returned" /\ fret.tag = "Ok"

\* C1: in a batch process call the accumulator handed to verify_fn is the
\* accumulator the call found, every scalar of the left and of the right side
\* multiplied by the one scalar drawn in the call, bases and order unchanged;
\* the terms verify_fn appends afterwards are not multiplied by that scalar.
C1_BatchScalesBeforeFold ==
    BatchCallMade =>
        /\ rand \in Scalars
        /\ handed.params = entry.params
        /\ ScaledBy(handed.left, entry.left, rand)
        /\ ScaledBy(handed.right, entry.right, rand)
        /\ ExtendedByFold(msm_accumulator.left, handed.left)
        /\ ExtendedByFold(msm_accumulator.right, handed.right)

C1_Witness ==
    /\ kind = "batch"
    /\ pc = "f_returned" /\ fret.tag = "Ok"
    /\ rand = 3
    /\ Len(entry.left.scalars) = 1 /\ Len(entry.right.scalars) = 1
    /\ Len(msm_accumulator.left.scalars) = 2 /\ Len(msm_accumulator.right.scalars) = 2
    /\ handed # entry

\* x to the power n in the scalar field, x^0 = 1.
RECURSIVE FieldPow(_, _)
FieldPow(x, n) == IF n = 0 THEN 1 ELSE (x * FieldPow(x, n - 1)) % FieldOrder

\* C2: combine_with_base(base) on n terms multiplies the scalar of the k-th
\* term (k = 1 .. n in append order) by base^(n-k), keeps the bases and the
\* number of terms, does nothing to an empty accumulator, and with base = 1
\* leaves every scalar as it was.
C2_CombineWithBasePowers ==
    msm_op.op = "combine_with_base" =>
        LET n == Len(msm_prev.scalars)
            base == msm_op.scalar
        IN  /\ Len(msm.scalars) = n
            /\ msm.bases = msm_prev.bases
            /\ \A k \in 1 .. n :
                 msm.scalars[k] = (msm_prev.scalars[k] * FieldPow(base, n - k)) % FieldOrder
            /\ (n = 0 => msm = msm_prev)
            /\ (base = 1 => msm.scalars = msm_prev.scalars)

C2_Witness ==
    /\ msm_op.op = "combine_with_base"
    /\ msm_op.scalar = 2
    /\ Len(msm_prev.scalars) = 3
    /\ msm.scalars[1] # msm_prev.scalars[1]
    /\ msm.scalars[2] # msm_prev.scalars[2]
    /\ msm.scalars[3] = msm_prev.scalars[3]

\* C3: DualMSM::check returns true exactly when
\* e(eval(left), [s]_2) * e(eval(right), -[1]_2) is the identity, that is when
\* s * eval(left) - eval(right) = 0; left goes with [s]_2 and right with -[1]_2.
C3_CheckIsPairingEquation ==
    dual_op.op = "check" => (dual_res <=> PairingEquationHolds(dual))

C3_Witness ==
    /\ dual_op.op = "check"
    /\ dual_res
    /\ Value(dual.left) # 0
    /\ Value(dual.right) # 0
    /\ Value(dual.left) # Value(dual.right)

\* C4: a batch strategy made by new(params) that went through n >= 1
\* successful process calls, each folding in terms that satisfy the pairing
\* equation by themselves, finalizes to true whatever scalars were drawn.
C4_ValidBatchFinalizesTrue ==
    (kind = "batch" /\ ctor = "new" /\ pc = "finalized" /\ nproc >= 1 /\ all_valid)
        => result = BoolResult(TRUE)

C4_Witness ==
    /\ kind = "batch" /\ ctor = "new" /\ pc = "finalized"
    /\ nproc = 2 /\ all_valid
    /\ rand = 2
    /\ Len(handed.left.scalars) = 1 /\ Len(handed.right.scalars) = 1
    /\ Len(msm_accumulator.left.scalars) = 2 /\ Len(msm_accumulator.right.scalars) = 2
    /\ Value(handed.left) # 0
    /\ Value(msm_accumulator.left) # 0

\* C5: when verify_fn returns an error, process (batch and single) returns
\* that same error, performs no pairing check, and leaves no strategy that
\* could be processed or finalized.
C5_ErrorPropagates ==
    (pc = "aborted") =>
        /\ fret.tag = "Err"
        /\ result = ErrResult(fret.err)
        /\ in_call_checks = 0
        /\ checks = 0
        /\ ~ ENABLED Next

C5_Witness ==
    /\ pc = "aborted"
    /\ kind = "batch"
    /\ nproc = 1
    /\ result = ErrResult("Opening")

\* C6: single process hands verify_fn the accumulator as constructed, with no
\* scalar drawn, calls verify_fn once, and after a successful verify_fn
\* returns Ok(()) exactly when the pairing equation holds of the guard's
\* accumulator and Err(ConstraintSystemFailure) exactly when it does not.
C6_SingleChecksOnce ==
    (kind = "single" /\ pc \in {"in_f", "f_returned", "done", "aborted"}) =>
        /\ fcalls = 1
        /\ rand = -1
        /\ (pc = "in_f" \/ fret.tag = "Ok") =>
              /\ entry = SingleStrategy_new(params)
              /\ handed = entry
        /\ pc = "done" =>
              /\ fret.tag = "Ok"
              /\ checks = 1
              /\ (result = OkResult <=> PairingEquationHolds(msm_accumulator))
              /\ (result = ErrResult("ConstraintSystemFailure")
                    <=> ~ PairingEquationHolds(msm_accumulator))

C6_Witness ==
    /\ kind = "single" /\ pc = "done"
    /\ result = ErrResult("ConstraintSystemFailure")
    /\ Len(msm_accumulator.left.scalars) = 2
    /\ Len(msm_accumulator.right.scalars) = 2

\* C7 as claimed: DualMSM::scale(f) keeps the result of check for every
\* scalar f.
C7_ScaleKeepsCheck ==
    dual_op.op = "scale" => (DualMSM_check(dual) <=> DualMSM_check(dual_prev))

\* C7, amended: DualMSM::scale(f) keeps the result of check for every nonzero
\* scalar f.
C7_NonzeroScaleKeepsCheck ==
    (dual_op.op = "scale" /\ dual_op.scalar # 0) =>
        (DualMSM_check(dual) <=> DualMSM_check(dual_prev))

C7_Witness ==
    /\ dual_op.op = "scale"
    /\ dual_op.scalar = 3
    /\ ~ PairingEquationHolds(dual_prev)
    /\ Len(dual_prev.left.scalars) = 2 /\ Len(dual_prev.right.scalars) = 2

\* C8: after A.add_msm(&B) the evaluation of A is the group sum of the
\* evaluation of A before and the evaluation of B.
C8_MergeAddsEvaluations ==
    msm_op.op = "add_msm" =>
        /\ eval(msm) = G1Add(eval(msm_prev), eval(other))
        /\ Value(msm) = (Value(msm_prev) + Value(other)) % FieldOrder

C8_Witness ==
    /\ msm_op.op = "add_msm"
    /\ Len(msm_prev.scalars) = 3
    /\ Len(other.scalars) = 2
    /\ eval(other) # 0
    /\ eval(msm_prev) # 0

\* C9: scale(c), for every scalar c, multiplies every stored scalar by c once,
\* keeps the order, the number of terms and the bases, so the evaluation is
\* multiplied by c; an empty accumulator stays as it is.
C9_ScaleMultipliesEveryScalar ==
    msm_op.op = "scale" =>
        /\ ScaledBy(msm, msm_prev, msm_op.scalar)
        /\ eval(msm) = G1Mul(msm_op.scalar, eval(msm_prev))
        /\ (msm_prev.scalars = <<>> => msm = msm_prev)

C9_Witness ==
    /\ msm_op.op = "scale"
    /\ msm_op.scalar = 3
    /\ Len(msm_prev.scalars) = 3
    /\ eval(msm_prev) # 0
    /\ eval(msm) # eval(msm_prev)

\* Number of terms of the first j accumulators of a collector.
RECURSIVE TermsBefore(_, _)
TermsBefore(ms, j) ==
    IF j = 0 THEN 0 ELSE TermsBefore(ms, j - 1) + Len(ms[j].scalars)

\* Sum of the values of the first j accumulators of a collector.
RECURSIVE ValuesSum(_, _)
ValuesSum(ms, j) == IF j = 0 THEN 0 ELSE ValuesSum(ms, j - 1) + Value(ms[j])

\* C10: normalize returns the concatenation of the terms of the accumulators
\* added, in the order they were added, every (scalar, base) pair once and
\* with its own base; the number of terms is the sum of theirs and the
\* evaluation the sum of their evaluations. add_msm stores an accumulator as
\* it is.
C10_NormalizeConcatenates ==
    /\ pre_state = "collecting" =>
          \A j \in 1 .. Len(projectives_msms) : projectives_msms[j] \in {msm, other}
    /\ pre_state = "normalized" =>
          LET k == Len(pre_prev)
          IN  /\ Len(normalized.scalars) = TermsBefore(pre_prev, k)
              /\ Len(normalized.bases) = TermsBefore(pre_prev, k)
              /\ \A j \in 1 .. k : \A i \in 1 .. Len(pre_prev[j].scalars) :
                   /\ normalized.scalars[TermsBefore(pre_prev, j - 1) + i]
                        = pre_prev[j].scalars[i]
                   /\ normalized.bases[TermsBefore(pre_prev, j - 1) + i]
                        = pre_prev[j].bases[i]
              /\ eval(normalized) = ValuesSum(pre_prev, k) % FieldOrder

C10_Witness ==
    /\ pre_state = "normalized"
    /\ Len(pre_prev) = 2
    /\ Len(pre_prev[1].scalars) = 2
    /\ Len(pre_prev[2].scalars) = 3
    /\ pre_prev[1].bases # SubSeq(pre_prev[2].bases, 1, 2)
    /\ eval(normalized) # 0

\* The scalars and the bases of an accumulator are equally many.
EqualLengths(m) == Len(m.scalars) = Len(m.bases)

\* C11: whatever operations were applied (append_term, add_msm, scale,
\* combine_with_base, PreMSM::add_msm, PreMSM::normalize, DualMSM::scale,
\* DualMSM::add_msm), every MSMKZG, stored in a PreMSM or not, and both sides
\* of every DualMSM hold as many scalars as bases.
C11_ScalarsAndBasesEqualLength ==
    /\ EqualLengths(msm)
    /\ EqualLengths(other)
    /\ \A j \in 1 .. Len(projectives_msms) : EqualLengths(projectives_msms[j])
    /\ EqualLengths(normalized)
    /\ EqualLengths(dual.left) /\ EqualLengths(dual.right)
    /\ EqualLengths(dual_other.left) /\ EqualLengths(dual_other.right)

C11_Witness ==
    /\ msm_op.op = "add_msm"
    /\ Len(msm.scalars) = 3
    /\ pre_state = "normalized"
    /\ Len(pre_prev) = 2
    /\ Len(normalized.scalars) = 4

C11_WitnessDual ==
    /\ dual_op.op = "add_msm"
    /\ Len(dual.left.scalars) = 3
    /\ Len(dual.right.scalars) = 2

\* C12: a batch session performs no pairing check in any process call; the
\* one check is made by finalize, on the accumulator the last successful
\* process left, and its result is what finalize returns; after finalize
\* nothing more can be processed or finalized.
C12_BatchChecksOnceInFinalize ==
    kind = "batch" =>
        /\ in_call_checks = 0
        /\ pc # "finalized" => checks = 0
        /\ pc = "finalized" =>
              /\ checks = 1
              /\ result = BoolResult(PairingEquationHolds(msm_accumulator))
              /\ (fcalls = 0 => msm_accumulator = entry)
              /\ (fcalls > 0 =>
                    /\ ExtendedByFold(msm_accumulator.left, handed.left)
                    /\ ExtendedByFold(msm_accumulator.right, handed.right))
              /\ ~ ENABLED Next

C12_Witness ==
    /\ kind = "batch" /\ ctor = "new" /\ pc = "finalized"
    /\ nproc = 2
    /\ result = BoolResult(FALSE)
    /\ checks = 1

\* C13 as claimed: a strategy that was constructed and has not processed
\* anything holds an accumulator with no terms on either side.
C13_StartsEmpty ==
    fcalls = 0 =>
        /\ msm_accumulator.left.scalars = <<>> /\ msm_accumulator.left.bases = <<>>
        /\ msm_accumulator.right.scalars = <<>> /\ msm_accumulator.right.bases = <<>>

\* C13, amended: a strategy constructed by new(params), batch or single, and
\* that has not processed anything holds an accumulator with no terms on
\* either side; a batch strategy constructed by with(acc) holds acc.
C13_NewStartsEmpty ==
    fcalls = 0 =>
        /\ ctor = "new" =>
              /\ msm_accumulator.left.scalars = <<>> /\ msm_accumulator.left.bases = <<>>
              /\ msm_accumulator.right.scalars = <<>> /\ msm_accumulator.right.bases = <<>>
        /\ ctor = "with" =>
              /\ kind = "batch"
              /\ msm_accumulator \in WithAccumulators(params)

C13_Witness ==
    /\ fcalls = 0 /\ pc = "ready"
    /\ kind = "single" /\ ctor = "new"
    /\ ENABLED SingleProcessCall

\* C15: finalize of a single strategy never returns a boolean: it panics,
\* checks nothing, and does not leave the strategy as it was.
C15_SingleFinalizePanics ==
    kind = "single" =>
        /\ result.tag # "Bool"
        /\ pc # "finalized"
        /\ pc = "panicked" =>
              /\ result = PanicResult
              /\ checks = 0
              /\ fcalls = 0
              /\ ~ ENABLED Next

C15_Witness ==
    /\ kind = "single"
    /\ pc = "panicked"
    /\ result = PanicResult

\* C16: A merged with B and B merged with A evaluate to the same point.
C16_MergeOrderIndependent ==
    msm_op.op = "add_msm" =>
        /\ eval(msm) = eval(add_msm(other, msm_prev))
        /\ Value(msm) = Value(add_msm(other, msm_prev))

C16_Witness ==
    /\ msm_op.op = "add_msm"
    /\ Len(msm_prev.scalars) = 3
    /\ Len(other.scalars) = 2
    /\ msm # add_msm(other, msm_prev)
    /\ eval(msm) # 0

\* m holds the terms of a followed by the terms of b.
Concatenates(m, a, b) ==
    /\ Len(m.scalars) = Len(a.scalars) + Len(b.scalars)
    /\ Len(m.bases) = Len(a.bases) + Len(b.bases)
    /\ \A i \in 1 .. Len(a.scalars) :
         m.scalars[i] = a.scalars[i] /\ m.bases[i] = a.bases[i]
    /\ \A i \in 1 .. Len(b.scalars) :
         /\ m.scalars[Len(a.scalars) + i] = b.scalars[i]
         /\ m.bases[Len(a.bases) + i] = b.bases[i]

C18_MergeAndAppendFrame ==
    [][ /\ (msm_op'.op = "add_msm" /\ nops' = nops + 1) =>
              /\ Concatenates(msm', msm, other)
              /\ Len(msm'.scalars) = Len(msm.scalars) + Len(other.scalars)
              /\ other' = other
        /\ (msm_op'.op = "append_term" /\ nops' = nops + 1) =>
              /\ Concatenates(msm', msm,
                    [scalars |-> <<msm_op'.scalar>>, bases |-> <<msm_op'.point>>])
              /\ other' = other
      ]_vars

C18_Witness ==
    /\ msm_op.op = "add_msm"
    /\ Len(msm_prev.scalars) = 2
    /\ Len(other.scalars) = 2
    /\ Len(msm.scalars) = 4
    /\ msm_prev.scalars # other.scalars

\* C20: check accepts an accumulator without terms: a batch strategy made by
\* new and finalized without any process call returns true, and a single
\* strategy whose verify_fn succeeds without appending returns Ok(()).
C20_EmptyAccepted ==
    /\ DualMSM_check(DualMSM_new(params))
    /\ (kind = "batch" /\ ctor = "new" /\ pc = "finalized" /\ fcalls = 0)
          => result = BoolResult(TRUE)
    /\ (kind = "single" /\ pc = "done"
          /\ msm_accumulator.left.scalars = <<>> /\ msm_accumulator.right.scalars = <<>>)
          => result = OkResult

C20_Witness ==
    /\ kind = "single" /\ pc = "done"
    /\ msm_accumulator = DualMSM_new(params)
    /\ result = OkResult

\* The value of the terms ts: the sum of scalar * base over them.
TermsValue(ts) == Value(FromTerms(ts))

\* The terms d satisfy the pairing equation on their own.
DeltaValid(d) ==
    (params.s_g2 * TermsValue(d.left) - TermsValue(d.right)) % FieldOrder = 0

RECURSIVE LaterScalars(_, _)
LaterScalars(rs, i) ==
    IF i >= Len(rs) THEN 1 ELSE (rs[i + 1] * LaterScalars(rs, i + 1)) % FieldOrder

\* Sum over the calls i .. n of (r_{i+1} * ... * r_n) * P_i.
RECURSIVE WeightedSum(_, _, _)
WeightedSum(rs, ps, i) ==
    IF i > Len(ps) THEN 0
    ELSE (LaterScalars(rs, i) * ps[i] + WeightedSum(rs, ps, i + 1)) % FieldOrder

\* C19: after n successful process calls of a batch session that began
\* empty, each side of the accumulator evaluates to the sum over the calls i
\* of (r_{i+1} * ... * r_n) * P_i, P_i being the value of what call i
\* appended to that side; r_1 does not occur in it.
C19_FoldedValue ==
    sess_pc \in {"ready", "finalized"} =>
        /\ Len(sess_rs) = Len(sess_ds)
        /\ eval(sess_a.left) =
              WeightedSum(sess_rs,
                  [i \in 1 .. Len(sess_ds) |-> TermsValue(sess_ds[i].left)], 1)
        /\ eval(sess_a.right) =
              WeightedSum(sess_rs,
                  [i \in 1 .. Len(sess_ds) |-> TermsValue(sess_ds[i].right)], 1)

C19_Witness ==
    /\ sess_pc = "ready"
    /\ Len(sess_ds) = 2
    /\ sess_rs[1] = 3 /\ sess_rs[2] = 2
    /\ TermsValue(sess_ds[1].left) = 1
    /\ TermsValue(sess_ds[2].left) = 2
    /\ eval(sess_a.left) = 4

====
